---- MODULE Spec2Model ----
(***************************************************************************)
(* Storage key derivation of @polkadot/metadata decorate/storage           *)
(* (createFunction.ts): the storage entry function created for a Plain,    *)
(* Map or DoubleMap item, its iterKey and its keyPrefix.                   *)
(***************************************************************************)
EXTENDS Integers, Sequences, FiniteSets, TLC

VARIABLES fns, last

vars == <<fns, last>>

\* ---------------------------------------------------------------- bounds
\* numeric arguments are drawn from 1..MaxNum
MaxNum == 2

\* ------------------------------------------------------------- constants
\* arity of the tuple a DoubleMap query is passed in as, [key1, key2]
TupleArity == 2
\* bit length of each half of the base prefix
PrefixBits == 128

\* ---------------------------------------------------------------- values
\* CreateArgType | [CreateArgType?, CreateArgType?], with undefined for an
\* omitted argument
Undef == [t |-> "undefined", v |-> 0, a |-> <<>>]
Null == [t |-> "null", v |-> 0, a |-> <<>>]
Num(n) == [t |-> "number", v |-> n, a |-> <<>>]
Arr(s) == [t |-> "array", v |-> 0, a |-> s]

Scalars == {Undef, Null} \cup {Num(n) : n \in 1..MaxNum}

SeqsUpTo(S, n) == UNION {[1..k -> S] : k \in 0..n}

Args == Scalars \cup {Arr(s) : s \in SeqsUpTo(Scalars, TupleArity)}

isUndefined(x) == x.t = "undefined"
isNull(x) == x.t = "null"
isArray(x) == x.t = "array"

\* args[i] of a JavaScript value (0-based index i), undefined when out of range
At(x, i) == IF isArray(x) /\ i + 1 <= Len(x.a) THEN x.a[i + 1] ELSE Undef

EMPTY_U8A == <<>>

\* ----------------------------------------------------------------- bytes
RECURSIVE u8aConcat(_)
u8aConcat(list) ==
  IF list = <<>> THEN <<>> ELSE Head(list) \o u8aConcat(Tail(list))

IsPrefixOf(p, s) == Len(p) <= Len(s) /\ SubSeq(s, 1, Len(p)) = p

\* little-endian bytes of a number
RECURSIVE toLE(_, _)
toLE(n, width) ==
  IF width = 0 THEN <<>> ELSE <<n % 256>> \o toLE(n \div 256, width - 1)

RECURSIVE fromLE(_)
fromLE(bytes) ==
  IF bytes = <<>> THEN 0 ELSE Head(bytes) + 256 * fromLE(Tail(bytes))

\* @polkadot/util compactToU8a: SCALE compact encoding of a length
compactToU8a(n) ==
  IF n <= 63 THEN toLE(n * 4, 1)
  ELSE IF n <= 16383 THEN toLE(n * 4 + 1, 2)
  ELSE toLE(n * 4 + 2, 4)

\* @polkadot/util compactFromU8a: <<offset, value>>
compactFromU8a(u8a) ==
  LET flag == u8a[1] % 4
  IN IF flag = 0 THEN <<1, u8a[1] \div 4>>
     ELSE IF flag = 1 THEN <<2, fromLE(SubSeq(u8a, 1, 2)) \div 4>>
     ELSE <<4, fromLE(SubSeq(u8a, 1, 4)) \div 4>>

compactAddLength(u8a) == compactToU8a(Len(u8a)) \o u8a

\* <<total, body>>
compactStripLength(u8a) ==
  LET ol == compactFromU8a(u8a)
      total == ol[1] + ol[2]
  IN <<total, SubSeq(u8a, ol[1] + 1, total)>>

\* hex digits (after the 0x) to bytes
RECURSIVE hexToU8a(_)
hexToU8a(digits) ==
  IF Len(digits) < 2 THEN <<>>
  ELSE <<16 * digits[1] + digits[2]>> \o hexToU8a(SubSeq(digits, 3, Len(digits)))

\* @polkadot/util u8aToU8a of options.key (undefined, hex string or text)
u8aToU8a(key) ==
  IF key.kind = "hex" THEN hexToU8a(key.data)
  ELSE IF key.kind = "text" THEN key.data
  ELSE <<>>

\* ---------------------------------------------------------------- hashes
RECURSIVE Absorb(_, _)
Absorb(data, h) ==
  IF data = <<>> THEN h ELSE Absorb(Tail(data), (h * 31 + Head(data) + 1) % 65521)

\* one 64-bit lane of xxhash with the given seed
xxhash64(data, seed) ==
  LET h == Absorb(data, 7 + 101 * seed)
  IN [i \in 1..8 |-> (h * (2 * i + 1) + 13 * seed + i) % 256]

\* @polkadot/util-crypto xxhashAsU8a: bitLength/64 lanes, seeds 0, 1, ...
RECURSIVE xxLanes(_, _, _)
xxLanes(data, seed, lanes) ==
  IF seed = lanes THEN <<>>
  ELSE xxhash64(data, seed) \o xxLanes(data, seed + 1, lanes)

xxhashAsU8a(data, bitLength) == xxLanes(data, 0, bitLength \div 64)

\* @polkadot/util-crypto blake2AsU8a
blake2AsU8a(data, bitLength) ==
  LET h == Absorb(data, 40503)
  IN [i \in 1..(bitLength \div 8) |-> (h * (4 * i + 3) + 5 * i) % 256]

\* getHasher(kind)(data); an undeclared hasher selects the identity
getHasher(hasher, data) ==
  CASE hasher = "Blake2_128" -> blake2AsU8a(data, 128)
    [] hasher = "Blake2_128Concat" -> blake2AsU8a(data, 128) \o data
    [] hasher = "Blake2_256" -> blake2AsU8a(data, 256)
    [] hasher = "Twox64" -> xxhashAsU8a(data, 64)
    [] hasher = "Twox128" -> xxhashAsU8a(data, 128)
    [] hasher = "Twox256" -> xxhashAsU8a(data, 256)
    [] hasher = "Twox64Concat" -> xxhashAsU8a(data, 64) \o data
    [] OTHER -> data

\* registry.createType(type, value).toU8a(): [ok, bytes]
createType(type, value) ==
  CASE type = "Null" -> [ok |-> TRUE, bytes |-> <<>>]
    [] type = "u8" ->
         IF value.t = "number" /\ value.v < 256
         THEN [ok |-> TRUE, bytes |-> <<value.v>>]
         ELSE [ok |-> FALSE, bytes |-> <<>>]
    [] OTHER -> [ok |-> FALSE, bytes |-> <<>>]

\* the encoded form of a StorageKey wrapping raw key bytes
StorageKey(raw) == compactAddLength(raw)

\* --------------------------------------------------------------- results
\* enc: key arguments encoded so far, hashed: key hashers applied so far
Ok(bytes, enc, hashed) ==
  [ok |-> TRUE, err |-> "", bytes |-> bytes, enc |-> enc, hashed |-> hashed]
Err(msg, enc, hashed) ==
  [ok |-> FALSE, err |-> msg, bytes |-> <<>>, enc |-> enc, hashed |-> hashed]

\* ------------------------------------------------------------ the source
isPlain(type) == type.kind = "Plain"
isMap(type) == type.kind = "Map"
isDoubleMap(type) == type.kind = "DoubleMap"

\* the hashers, the base and (in the case of DoubleMap) the second key
getHashers(itemFn) ==
  LET type == itemFn.meta.type
  IN IF isDoubleMap(type) THEN <<type.hasher, type.key2Hasher>>
     ELSE IF isMap(type) THEN <<type.hasher>>
     ELSE <<"">>

\* variant: the base prefix hashed from the section name
createPrefixedKey_section(itemFn) ==
  u8aConcat(<<xxhashAsU8a(itemFn.section, PrefixBits),
              xxhashAsU8a(itemFn.method, PrefixBits)>>)

\* create a base prefixed key
createPrefixedKey(itemFn) ==
  u8aConcat(<<xxhashAsU8a(itemFn.prefix, PrefixBits),
              xxhashAsU8a(itemFn.method, PrefixBits)>>)

\* variant: only the first key of the pair is verified
createKeyDoubleMap_firstOnly(itemFn, args, hashers) ==
  LET type == itemFn.meta.type
  IN IF ~(isArray(args) /\ ~isUndefined(At(args, 0)) /\ ~isNull(At(args, 0)))
     THEN Err("is a DoubleMap and requires two arguments", 0, 0)
     ELSE LET val1 == createType(type.key1, At(args, 0))
              val2 == createType(type.key2, At(args, 1))
          IN IF ~val1.ok THEN Err("createType", 1, 0)
             ELSE IF ~val2.ok THEN Err("createType", 2, 0)
             ELSE Ok(compactAddLength(u8aConcat(<<
                       createPrefixedKey(itemFn),
                       getHasher(hashers[1], val1.bytes),
                       getHasher(hashers[2], val2.bytes)>>)), 2, 2)

\* create a key for a DoubleMap type
createKeyDoubleMap(itemFn, args, hashers) ==
  LET type == itemFn.meta.type
  IN IF ~(isArray(args) /\ ~isUndefined(At(args, 0)) /\ ~isNull(At(args, 0))
            /\ ~isUndefined(At(args, 1)) /\ ~isNull(At(args, 1)))
     THEN Err("is a DoubleMap and requires two arguments", 0, 0)
     ELSE IF Len(hashers) < 2
     THEN Err("2 hashing functions should be defined for DoubleMaps", 0, 0)
     ELSE LET val1 == createType(type.key1, At(args, 0))
              val2 == createType(type.key2, At(args, 1))
          IN IF ~val1.ok THEN Err("createType", 1, 0)
             ELSE IF ~val2.ok THEN Err("createType", 2, 0)
             ELSE Ok(compactAddLength(u8aConcat(<<
                       createPrefixedKey(itemFn),
                       getHasher(hashers[1], val1.bytes),
                       getHasher(hashers[2], val2.bytes)>>)), 2, 2)

\* variant: the encoded argument is hashed even when it is empty
createKey_alwaysHash(itemFn, arg, hasher) ==
  LET type == itemFn.meta.type
  IN IF isMap(type) /\ (isUndefined(arg) \/ isNull(arg))
     THEN Err("is a Map and requires one argument", 0, 0)
     ELSE LET enc == IF isMap(type) THEN createType(type.key1, arg)
                     ELSE [ok |-> TRUE, bytes |-> EMPTY_U8A]
          IN IF ~enc.ok THEN Err("createType", 1, 0)
             ELSE Ok(compactAddLength(u8aConcat(<<
                       createPrefixedKey(itemFn),
                       getHasher(hasher, enc.bytes)>>)),
                     IF isMap(type) THEN 1 ELSE 0, 1)

\* variant: a plain value rejects a supplied argument
createKey_rejectPlainArg(itemFn, arg, hasher) ==
  LET type == itemFn.meta.type
  IN IF isMap(type) /\ (isUndefined(arg) \/ isNull(arg))
     THEN Err("is a Map and requires one argument", 0, 0)
     ELSE IF ~isMap(type) /\ ~isUndefined(arg)
     THEN Err("is a Plain value and takes no argument", 0, 0)
     ELSE LET enc == IF isMap(type) THEN createType(type.key1, arg)
                     ELSE [ok |-> TRUE, bytes |-> EMPTY_U8A]
              param == enc.bytes
          IN IF ~enc.ok THEN Err("createType", 1, 0)
             ELSE Ok(compactAddLength(u8aConcat(<<
                       createPrefixedKey(itemFn),
                       IF Len(param) # 0 THEN getHasher(hasher, param)
                       ELSE EMPTY_U8A>>)),
                     IF isMap(type) THEN 1 ELSE 0,
                     IF Len(param) # 0 THEN 1 ELSE 0)

\* create a key for either a map or a plain value
createKey(itemFn, arg, hasher) ==
  LET type == itemFn.meta.type
  IN IF isMap(type) /\ (isUndefined(arg) \/ isNull(arg))
     THEN Err("is a Map and requires one argument", 0, 0)
     ELSE LET enc == IF isMap(type) THEN createType(type.key1, arg)
                     ELSE [ok |-> TRUE, bytes |-> EMPTY_U8A]
              param == enc.bytes
              n == IF isMap(type) THEN 1 ELSE 0
          IN IF ~enc.ok THEN Err("createType", 1, 0)
             ELSE Ok(compactAddLength(u8aConcat(<<
                       createPrefixedKey(itemFn),
                       IF Len(param) # 0 THEN getHasher(hasher, param)
                       ELSE EMPTY_U8A>>)),
                     n, IF Len(param) # 0 THEN 1 ELSE 0)

\* variant: the first key is hashed with the hasher of the second key
iterFn_key2Hasher(itemFn, arg) ==
  LET type == itemFn.meta.type
  IN IF ~(isDoubleMap(type) \/ isUndefined(arg))
     THEN Err("Filtering arguments for keys/entries are only valid on double maps", 0, 0)
     ELSE IF isDoubleMap(type) /\ ~isUndefined(arg) /\ ~isNull(arg)
     THEN LET val == createType(type.key1, arg)
          IN IF ~val.ok THEN Err("createType", 1, 0)
             ELSE Ok(u8aConcat(<<createPrefixedKey(itemFn),
                                 getHasher(type.key2Hasher, val.bytes)>>), 1, 1)
     ELSE Ok(createPrefixedKey(itemFn), 0, 0)

\* variant: the iteration prefix hashes the method before the module prefix
iterFn_methodFirst(itemFn, arg) ==
  LET type == itemFn.meta.type
      base == u8aConcat(<<xxhashAsU8a(itemFn.method, PrefixBits),
                          xxhashAsU8a(itemFn.prefix, PrefixBits)>>)
  IN IF ~(isDoubleMap(type) \/ isUndefined(arg))
     THEN Err("Filtering arguments for keys/entries are only valid on double maps", 0, 0)
     ELSE IF isDoubleMap(type) /\ ~isUndefined(arg) /\ ~isNull(arg)
     THEN LET val == createType(type.key1, arg)
          IN IF ~val.ok THEN Err("createType", 1, 0)
             ELSE Ok(u8aConcat(<<base, getHasher(type.hasher, val.bytes)>>), 1, 1)
     ELSE Ok(base, 0, 0)

\* the raw key function handed to extendHeadMeta by extendPrefixedMap
iterFn(itemFn, arg) ==
  LET type == itemFn.meta.type
  IN IF ~(isDoubleMap(type) \/ isUndefined(arg))
     THEN Err("Filtering arguments for keys/entries are only valid on double maps", 0, 0)
     ELSE IF isDoubleMap(type) /\ ~isUndefined(arg) /\ ~isNull(arg)
     THEN LET val == createType(type.key1, arg)
          IN IF ~val.ok THEN Err("createType", 1, 0)
             ELSE Ok(u8aConcat(<<createPrefixedKey(itemFn),
                                 getHasher(type.hasher, val.bytes)>>), 1, 1)
     ELSE Ok(createPrefixedKey(itemFn), 0, 0)

\* variant: only an undefined argument selects the full iteration prefix
extendHeadMeta_undefinedOnly(itemFn, arg) ==
  LET prefixKey == StorageKey(iterFn(itemFn, Undef).bytes)
  IN IF ~isUndefined(arg)
     THEN LET raw == iterFn(itemFn, arg)
          IN IF raw.ok THEN Ok(StorageKey(raw.bytes), raw.enc, raw.hashed)
             ELSE raw
     ELSE Ok(prefixKey, 0, 0)

\* extendHeadMeta: the iterKey function over the raw key function
extendHeadMeta(itemFn, arg) ==
  LET prefixKey == StorageKey(iterFn(itemFn, Undef).bytes)
  IN IF ~isUndefined(arg) /\ ~isNull(arg)
     THEN LET raw == iterFn(itemFn, arg)
          IN IF raw.ok THEN Ok(StorageKey(raw.bytes), raw.enc, raw.hashed)
             ELSE raw
     ELSE Ok(prefixKey, 0, 0)

\* extendPrefixedMap: storageFn.iterKey
iterKey(fn, arg) == extendHeadMeta(fn.itemFn, arg)

\* iterKey is attached for maps and double maps only
hasIterKey(fn) ==
  isMap(fn.itemFn.meta.type) \/ isDoubleMap(fn.itemFn.meta.type)

\* variant: the raw key override is honoured for plain values only
storageFn_plainOnly(fn, arg) ==
  LET itemFn == fn.itemFn
      type == itemFn.meta.type
      hashers == getHashers(itemFn)
  IN IF isDoubleMap(type) THEN createKeyDoubleMap(itemFn, arg, hashers)
     ELSE IF fn.options.skipHashing /\ ~isMap(type)
     THEN Ok(compactAddLength(u8aToU8a(fn.options.key)), 0, 0)
     ELSE createKey(itemFn, arg, hashers[1])

\* createFunction: the storage function itself
storageFn(fn, arg) ==
  LET itemFn == fn.itemFn
      type == itemFn.meta.type
      hashers == getHashers(itemFn)
  IN IF isDoubleMap(type) THEN createKeyDoubleMap(itemFn, arg, hashers)
     ELSE IF fn.options.skipHashing
     THEN Ok(compactAddLength(u8aToU8a(fn.options.key)), 0, 0)
     ELSE createKey(itemFn, arg, hashers[1])

\* variant: the length header is stripped from the iteration key as well
keyPrefix_strip(fn, arg) ==
  LET full == IF hasIterKey(fn) THEN iterKey(fn, arg) ELSE storageFn(fn, Undef)
  IN IF full.ok
     THEN Ok(compactStripLength(full.bytes)[2], full.enc, full.hashed)
     ELSE full

\* variant: the full key is returned with its length header
keyPrefix_full(fn, arg) ==
  IF hasIterKey(fn) THEN iterKey(fn, arg) ELSE storageFn(fn, Undef)

\* createFunction: storageFn.keyPrefix
keyPrefix(fn, arg) ==
  IF hasIterKey(fn) THEN iterKey(fn, arg)
  ELSE LET full == storageFn(fn, Undef)
       IN IF full.ok
          THEN Ok(compactStripLength(full.bytes)[2], full.enc, full.hashed)
          ELSE full

\* ---------------------------------------------------------------- inputs
Sections == {<<115, 121, 115>>, <<98, 97, 108>>}
Prefixes == {<<83, 121, 115>>, <<66, 97, 108>>}
Methods == {<<65, 99, 99>>, <<78, 111, 119>>}
HasherKinds == {"Identity", "Twox64Concat", "Blake2_256"}
KeyTypes == {"u8", "Null"}

PlainType ==
  [kind |-> "Plain", hasher |-> "", key1 |-> "", key2Hasher |-> "", key2 |-> ""]
MapTypes ==
  {[kind |-> "Map", hasher |-> h, key1 |-> k, key2Hasher |-> "", key2 |-> ""] :
     h \in HasherKinds, k \in KeyTypes}
DoubleMapTypes ==
  {[kind |-> "DoubleMap", hasher |-> h[1], key1 |-> k[1],
    key2Hasher |-> h[2], key2 |-> k[2]] :
     h \in HasherKinds \X HasherKinds, k \in KeyTypes \X KeyTypes}
EntryTypes == {PlainType} \cup MapTypes \cup DoubleMapTypes

ItemFns(types, methods, sections) ==
  {[meta |-> [name |-> m, type |-> t], method |-> m, prefix |-> p, section |-> s] :
     t \in types, m \in methods, p \in Prefixes, s \in sections}

\* CreateItemOptions: no override, a text key (":c"), a hex key ("0x3a68")
NoOptions == [skipHashing |-> FALSE, key |-> [kind |-> "none", data |-> <<>>]]
TextKey == [skipHashing |-> TRUE, key |-> [kind |-> "text", data |-> <<58, 99>>]]
HexKey == [skipHashing |-> TRUE, key |-> [kind |-> "hex", data |-> <<3, 10, 6, 8>>]]
Options == {NoOptions, TextKey, HexKey}

Fns(types, methods, sections, options) ==
  {[itemFn |-> i, options |-> o] :
     i \in ItemFns(types, methods, sections), o \in options}

NoCall == [fn |-> 1, op |-> "none", arg |-> Undef, out |-> Ok(<<>>, 0, 0)]

\* --------------------------------------------------------------- machine
\* the state after createFunction(registry, itemFn, options)
Init ==
  /\ fns \in [1..1 -> Fns(EntryTypes, Methods, {<<115, 121, 115>>}, Options)]
  /\ last = NoCall

CallEntry(i, arg) ==
  /\ last' = [fn |-> i, op |-> "entry", arg |-> arg, out |-> storageFn(fns[i], arg)]
  /\ UNCHANGED fns

CallIterKey(i, arg) ==
  /\ hasIterKey(fns[i])
  /\ last' = [fn |-> i, op |-> "iterKey", arg |-> arg, out |-> iterKey(fns[i], arg)]
  /\ UNCHANGED fns

CallKeyPrefix(i, arg) ==
  /\ last' = [fn |-> i, op |-> "keyPrefix", arg |-> arg, out |-> keyPrefix(fns[i], arg)]
  /\ UNCHANGED fns

Next ==
  \E i \in DOMAIN fns, arg \in Args :
    \/ CallEntry(i, arg)
    \/ CallIterKey(i, arg)
    \/ CallKeyPrefix(i, arg)

Spec == Init /\ [][Next]_vars

\* two storage entries side by side, queried through the entry function
PairTypes ==
  {PlainType,
   [kind |-> "Map", hasher |-> "Twox64Concat", key1 |-> "u8", key2Hasher |-> "", key2 |-> ""],
   [kind |-> "Map", hasher |-> "Twox64Concat", key1 |-> "Null", key2Hasher |-> "", key2 |-> ""],
   [kind |-> "DoubleMap", hasher |-> "Twox64Concat", key1 |-> "u8",
    key2Hasher |-> "Identity", key2 |-> "u8"]}

InitPair ==
  /\ fns \in [1..2 -> Fns(PairTypes, {<<65, 99, 99>>}, Sections, {NoOptions, TextKey})]
  /\ last = NoCall

NextPair == \E i \in DOMAIN fns, arg \in Args : CallEntry(i, arg)

SpecPair == InitPair /\ [][NextPair]_vars

\* ------------------------------------------------------------ properties
LastFn == fns[last.fn]
LastItem == LastFn.itemFn
LastType == LastItem.meta.type
Out == last.out

Min(a, b) == IF a < b THEN a ELSE b
Take(s, n) == SubSeq(s, 1, Min(n, Len(s)))
\* the bytes after the compact length header / the header itself
Body(key) == SubSeq(key, compactFromU8a(key)[1] + 1, Len(key))
Header(key) == SubSeq(key, 1, compactFromU8a(key)[1])

Supplied(x) == ~isUndefined(x) /\ ~isNull(x)
ValidKey(type, x) == Supplied(x) /\ createType(type, x).ok
GoodPair(x) ==
  isArray(x) /\ Len(x.a) = 2 /\ Supplied(x.a[1]) /\ Supplied(x.a[2])
ValidEntryArg(fn, x) ==
  LET type == fn.itemFn.meta.type
  IN CASE isMap(type) -> ValidKey(type.key1, x)
       [] isDoubleMap(type) ->
            GoodPair(x) /\ ValidKey(type.key1, x.a[1]) /\ ValidKey(type.key2, x.a[2])
       [] OTHER -> TRUE

\* the raw path is taken by Plain and Map entries created with skipHashing
RawPath(fn) == fn.options.skipHashing /\ ~isDoubleMap(fn.itemFn.meta.type)

BasePrefix(itemFn) ==
  xxhashAsU8a(itemFn.prefix, 128) \o xxhashAsU8a(itemFn.method, 128)

\* the body the key format prescribes for a valid argument
FormatBody(fn, x) ==
  LET type == fn.itemFn.meta.type
      base == BasePrefix(fn.itemFn)
  IN CASE isMap(type) ->
            LET e == createType(type.key1, x).bytes
            IN IF e = <<>> THEN base ELSE base \o getHasher(type.hasher, e)
       [] isDoubleMap(type) ->
            base \o getHasher(type.hasher, createType(type.key1, x.a[1]).bytes)
                 \o getHasher(type.key2Hasher, createType(type.key2, x.a[2]).bytes)
       [] OTHER -> base

\* C1: for a non-raw entry and a valid argument, entry(...) returns a compact
\* length header followed by the body, the decoded header value is the byte
\* length of the body, the body is basePrefix (Plain, Map with an empty encoded
\* argument), basePrefix ++ hasher(arg) (Map) or basePrefix ++ hasher1(key1)
\* ++ hasher2(key2) (DoubleMap), and basePrefix is 32 bytes long.
C1_KeyFormat ==
  (last.op = "entry" /\ ~RawPath(LastFn) /\ ValidEntryArg(LastFn, last.arg)) =>
    /\ Out.ok
    /\ Len(BasePrefix(LastItem)) = 32
    /\ Body(Out.bytes) = FormatBody(LastFn, last.arg)
    /\ compactFromU8a(Out.bytes)[2] = Len(Body(Out.bytes))
    /\ Header(Out.bytes) = compactToU8a(Len(Body(Out.bytes)))

\* a Map key of 64 body bytes, whose length header takes two bytes
C1_Witness ==
  /\ last.op = "entry" /\ isMap(LastType) /\ ~RawPath(LastFn)
  /\ LastType.hasher = "Blake2_256" /\ last.arg = Num(1)
  /\ Out.ok /\ Len(Out.bytes) = 66 /\ compactFromU8a(Out.bytes) = <<2, 64>>

\* C2 as stated: a Plain entry invoked with an argument fails and returns no
\* key bytes.
C2_PlainArgFails ==
  (last.op = "entry" /\ isPlain(LastType) /\ ~isUndefined(last.arg)) =>
    (~Out.ok /\ Out.bytes = <<>>)

\* C2 amended: a Plain entry invoked with an argument does not fail; the
\* argument is ignored and the key of entry() with zero arguments is returned.
C2_PlainArgIgnored ==
  (last.op = "entry" /\ isPlain(LastType)) =>
    /\ Out.ok
    /\ Out.bytes = storageFn(LastFn, Undef).bytes
    /\ Out.bytes # <<>>
    /\ ~RawPath(LastFn) => Body(Out.bytes) = BasePrefix(LastItem)

C2_Witness ==
  /\ last.op = "entry" /\ isPlain(LastType) /\ ~RawPath(LastFn)
  /\ last.arg = Num(1) /\ Out.ok /\ Len(Out.bytes) = 33

C4_IterKeyBytePrefix ==
  (last.op = "iterKey" /\ isDoubleMap(LastType) /\ ValidKey(LastType.key1, last.arg)) =>
    \A k2 \in Scalars :
      ValidKey(LastType.key2, k2) =>
        IsPrefixOf(Out.bytes, storageFn(LastFn, Arr(<<last.arg, k2>>)).bytes)

\* C4 amended: the body of iterKey(firstKey), after its length header, is a
\* byte-prefix of the body of the full key of entry([firstKey, secondKey]).
C4_IterKeyBodyPrefix ==
  (last.op = "iterKey" /\ isDoubleMap(LastType) /\ ValidKey(LastType.key1, last.arg)) =>
    /\ Out.ok
    /\ \A k2 \in Scalars :
         ValidKey(LastType.key2, k2) =>
           LET full == storageFn(LastFn, Arr(<<last.arg, k2>>))
           IN full.ok /\ IsPrefixOf(Body(Out.bytes), Body(full.bytes))

C4_Witness ==
  /\ last.op = "iterKey" /\ isDoubleMap(LastType)
  /\ LastType.key1 = "u8" /\ LastType.hasher = "Twox64Concat"
  /\ LastType.key2 = "u8" /\ LastType.key2Hasher = "Blake2_256"
  /\ last.arg = Num(2) /\ Out.ok /\ Len(Body(Out.bytes)) = 41

\* C5 as stated: iterKey() with no filter key is exactly the leading (length
\* header + 32) bytes of every full key entry(...) derives from the item.
C5_IterKeyLeadingBytes ==
  (last.op = "iterKey" /\ isUndefined(last.arg)) =>
    \A a \in Args :
      LET full == storageFn(LastFn, a)
      IN full.ok => Out.bytes = Take(full.bytes, Len(Header(full.bytes)) + 32)

\* C5 amended: for an item not on the raw path, the body of iterKey() with no
\* filter key is the 32-byte base prefix, which is the leading 32 bytes of the
\* body of every full key entry(...) derives from the item.
C5_IterKeyLeadingBody ==
  (last.op = "iterKey" /\ isUndefined(last.arg) /\ ~RawPath(LastFn)) =>
    /\ Out.ok
    /\ Len(Body(Out.bytes)) = 32
    /\ \A a \in Args :
         LET full == storageFn(LastFn, a)
         IN full.ok => Body(Out.bytes) = Take(Body(full.bytes), 32)

C5_Witness ==
  /\ last.op = "iterKey" /\ isUndefined(last.arg) /\ isMap(LastType)
  /\ ~RawPath(LastFn) /\ LastType.key1 = "u8" /\ Out.ok
  /\ storageFn(LastFn, Num(1)).ok
  /\ Len(storageFn(LastFn, Num(1)).bytes) > Len(Out.bytes)

\* the body of the iteration key narrowed to a first key
NarrowBody(fn, key1) ==
  BasePrefix(fn.itemFn)
    \o getHasher(fn.itemFn.meta.type.hasher,
                 createType(fn.itemFn.meta.type.key1, key1).bytes)

\* C6 as stated: iterKey(key1) is the length-prefixed form of basePrefix ++
\* hasher1(encode(key1)), keyPrefix(key1) is that body without the header,
\* and the two differ by exactly the header.
C6_KeyPrefixStripsHeader ==
  (last.op = "keyPrefix" /\ isDoubleMap(LastType) /\ ValidKey(LastType.key1, last.arg)) =>
    LET body == NarrowBody(LastFn, last.arg)
        it == iterKey(LastFn, last.arg)
    IN /\ it.bytes = compactToU8a(Len(body)) \o body
       /\ Out.bytes = body
       /\ it.bytes = compactToU8a(Len(body)) \o Out.bytes

\* C6 amended: iterKey(key1) is the length-prefixed form of basePrefix ++
\* hasher1(encode(key1)) and keyPrefix(key1) returns those same bytes, header
\* included.
C6_KeyPrefixKeepsHeader ==
  (last.op = "keyPrefix" /\ isDoubleMap(LastType) /\ ValidKey(LastType.key1, last.arg)) =>
    LET body == NarrowBody(LastFn, last.arg)
        it == iterKey(LastFn, last.arg)
    IN /\ Out.ok /\ it.ok
       /\ it.bytes = compactToU8a(Len(body)) \o body
       /\ Out.bytes = it.bytes

C6_Witness ==
  /\ last.op = "keyPrefix" /\ isDoubleMap(LastType)
  /\ LastType.key1 = "u8" /\ LastType.hasher = "Blake2_256"
  /\ last.arg = Num(1) /\ Out.ok /\ Len(Out.bytes) = 66

\* C7 as stated: on a Map, iterKey(arg) fails for every argument other than
\* an omitted one, and iterKey() returns the prefix built from basePrefix.
C7_MapIterKeyArgFails ==
  (last.op = "iterKey" /\ isMap(LastType)) =>
    IF isUndefined(last.arg)
    THEN Out.ok /\ Body(Out.bytes) = BasePrefix(LastItem)
    ELSE ~Out.ok /\ Out.bytes = <<>>

\* C7 amended: on a Map, iterKey(arg) fails for every argument other than
\* undefined and null, and iterKey() and iterKey(null) return the prefix built
\* from basePrefix.
C7_MapIterKeySuppliedArgFails ==
  (last.op = "iterKey" /\ isMap(LastType)) =>
    IF ~Supplied(last.arg)
    THEN Out.ok /\ Body(Out.bytes) = BasePrefix(LastItem)
    ELSE ~Out.ok /\ Out.bytes = <<>>

C7_Witness ==
  /\ last.op = "iterKey" /\ isMap(LastType) /\ last.arg = Num(1)
  /\ ~Out.ok /\ Out.err = "Filtering arguments for keys/entries are only valid on double maps"

\* C8 as stated: with skipHashing, for every shape and argument entry(...)
\* returns compactLength(rawBytes) ++ rawBytes, nothing encoded or hashed.
C8_RawKeyAllShapes ==
  (last.op = "entry" /\ LastFn.options.skipHashing) =>
    LET raw == u8aToU8a(LastFn.options.key)
    IN /\ Out.ok
       /\ Out.bytes = compactToU8a(Len(raw)) \o raw
       /\ Out.enc = 0 /\ Out.hashed = 0

\* C8 amended: with skipHashing, for the Plain and Map shapes and every
\* argument entry(...) returns compactLength(rawBytes) ++ rawBytes, nothing
\* encoded or hashed.
C8_RawKeyPlainAndMap ==
  (last.op = "entry" /\ LastFn.options.skipHashing /\ ~isDoubleMap(LastType)) =>
    LET raw == u8aToU8a(LastFn.options.key)
    IN /\ Out.ok
       /\ Out.bytes = compactToU8a(Len(raw)) \o raw
       /\ Out.enc = 0 /\ Out.hashed = 0

C8_Witness ==
  /\ last.op = "entry" /\ isMap(LastType) /\ LastFn.options = HexKey
  /\ last.arg = Null /\ Out.ok /\ Out.bytes = <<8, 58, 104>>

\* the encoded argument bytes of a valid invocation
ArgBytes(fn, x) ==
  LET type == fn.itemFn.meta.type
  IN IF ~ValidEntryArg(fn, x) THEN [ok |-> FALSE, list |-> <<>>]
     ELSE CASE isMap(type) ->
                 [ok |-> TRUE, list |-> <<createType(type.key1, x).bytes>>]
            [] isDoubleMap(type) ->
                 [ok |-> TRUE, list |-> <<createType(type.key1, x.a[1]).bytes,
                                          createType(type.key2, x.a[2]).bytes>>]
            [] OTHER -> [ok |-> TRUE, list |-> <<>>]

SameShapeAndHashers(f, g) ==
  /\ f.itemFn.meta.type.kind = g.itemFn.meta.type.kind
  /\ f.itemFn.meta.type.hasher = g.itemFn.meta.type.hasher
  /\ f.itemFn.meta.type.key2Hasher = g.itemFn.meta.type.key2Hasher

\* C9 as stated: two entries that agree on (section, method, shape,
\* hasherKind, argument-bytes) return identical keys, and the base prefix is
\* hash128(section) ++ hash128(method).
C9_SectionTuple ==
  (last.op = "entry" /\ Out.ok /\ ArgBytes(LastFn, last.arg).ok) =>
    /\ ~RawPath(LastFn) =>
         Take(Body(Out.bytes), 32)
           = xxhashAsU8a(LastItem.section, 128) \o xxhashAsU8a(LastItem.method, 128)
    /\ \A j \in DOMAIN fns, b \in Args :
         (/\ fns[j].itemFn.section = LastItem.section
          /\ fns[j].itemFn.method = LastItem.method
          /\ SameShapeAndHashers(fns[j], LastFn)
          /\ ArgBytes(fns[j], b) = ArgBytes(LastFn, last.arg)) =>
           storageFn(fns[j], b).bytes = Out.bytes

\* C9 amended: two entries created with the same options that agree on
\* (prefix, method, shape, hasherKind, argument-bytes) return identical keys,
\* and off the raw path the base prefix is hash128(prefix) ++ hash128(method).
C9_PrefixTuple ==
  (last.op = "entry" /\ Out.ok /\ ArgBytes(LastFn, last.arg).ok) =>
    /\ ~RawPath(LastFn) =>
         Take(Body(Out.bytes), 32)
           = xxhashAsU8a(LastItem.prefix, 128) \o xxhashAsU8a(LastItem.method, 128)
    /\ \A j \in DOMAIN fns, b \in Args :
         (/\ fns[j].itemFn.prefix = LastItem.prefix
          /\ fns[j].itemFn.method = LastItem.method
          /\ fns[j].options = LastFn.options
          /\ SameShapeAndHashers(fns[j], LastFn)
          /\ ArgBytes(fns[j], b) = ArgBytes(LastFn, last.arg)) =>
           /\ storageFn(fns[j], b).ok
           /\ storageFn(fns[j], b).bytes = Out.bytes

\* two entries of different sections and key types, agreeing on the tuple
C9_Witness ==
  /\ Len(fns) = 2 /\ last.op = "entry" /\ last.fn = 1 /\ Out.ok
  /\ isMap(LastType) /\ ~RawPath(LastFn) /\ last.arg = Num(1)
  /\ fns[2].itemFn.section # LastItem.section
  /\ fns[2].itemFn.prefix = LastItem.prefix
  /\ fns[2].itemFn.method = LastItem.method
  /\ fns[2].options = LastFn.options
  /\ SameShapeAndHashers(fns[2], LastFn)
  /\ storageFn(fns[2], Num(1)).bytes = Out.bytes

\* C10: for Map and DoubleMap entries keyPrefix(arg) returns what iterKey(arg)
\* returns and fails when iterKey(arg) fails; for Plain entries keyPrefix(arg)
\* is the key of entry() with zero arguments without its length header.
C10_KeyPrefixCombinator ==
  (last.op = "keyPrefix") =>
    IF isMap(LastType) \/ isDoubleMap(LastType)
    THEN LET it == iterKey(LastFn, last.arg)
         IN Out.ok = it.ok /\ Out.bytes = it.bytes /\ Out.err = it.err
    ELSE LET full == storageFn(LastFn, Undef)
         IN /\ Out.ok
            /\ full.bytes = compactToU8a(Len(Out.bytes)) \o Out.bytes

C10_Witness ==
  /\ last.op = "keyPrefix" /\ isPlain(LastType) /\ ~RawPath(LastFn)
  /\ last.arg = Num(2) /\ Out.ok /\ Len(Out.bytes) = 32

====
